---- MODULE Spec2Model ----
(***************************************************************************)
(* A model of gulp-sass-alt (src/index.js): the shared library list and    *)
(* the through-stream stages libraries(), transpile(), sassReporter() and  *)
(* injectAppCSS().                                                         *)
(*                                                                         *)
(* JavaScript strings are modelled as sequences of one-character strings,  *)
(* so that String.prototype.replace, path.basename, the reporter's regular *)
(* expression and the source-map replacement pass are computed character   *)
(* by character, as the code computes them.  An absent / null / undefined  *)
(* value is the empty tuple Null, a present value x is Some(x) = <<x>>.    *)
(***************************************************************************)
EXTENDS Integers, Sequences, FiniteSets, TLC

\* ------------------------------------------------------------------------
\* Bounds of the model
\* ------------------------------------------------------------------------
MaxLibOps == 3

MaxFiles == 2

MaxEntryLen == 5

MaxDepth == 2

MaxSharedLibOps == 2

MaxSharedFiles == 1

\* ------------------------------------------------------------------------
\* Optional values
\* ------------------------------------------------------------------------
Null == << >>

Some(x) == << x >>

\* ------------------------------------------------------------------------
\* String primitives (strings are sequences of characters)
\* ------------------------------------------------------------------------
\* In the operators below an operand that is used more than once is first
\* bound to its value (v \in {s}), so that it is computed once.

\* s.substring(i-1, j) for 1-based inclusive bounds i..j
Sub(s, i, j) == SubSeq(s, i, j)

\* does sub occur in s starting at (1-based) position i
OccursAt(sub, s, i) ==
  /\ i >= 1
  /\ i + Len(sub) - 1 <= Len(s)
  /\ SubSeq(s, i, i + Len(sub) - 1) = sub

\* the least / greatest element of a non-empty set of numbers
Least(set) == CHOOSE i \in set : \A j \in set : i <= j

Greatest(set) == CHOOSE i \in set : \A j \in set : i >= j

\* String.prototype.indexOf, 1-based; 0 when sub does not occur
indexOfStr(s, sub) ==
  LET hits == UNION {{i \in 1..(Len(v) + 1) : OccursAt(w, v, i)} : v \in {s}, w \in {sub}}
  IN  IF hits = {} THEN 0 ELSE Least(hits)

\* String.prototype.replace(sub, rep) with a string pattern: the first
\* occurrence only
replaceFirst(s, sub, rep) ==
  CHOOSE r \in {IF i = 0 THEN v
                ELSE Sub(v, 1, i - 1) \o rep \o Sub(v, i + Len(w), Len(v)) :
                  <<v, w, i>> \in {<<s, sub, indexOfStr(s, sub)>>}} : TRUE

\* position of the last character c of s, 0 when there is none
lastIndexOfChar(s, c) ==
  LET hits == UNION {{i \in 1..Len(v) : v[i] = c} : v \in {s}}
  IN  IF hits = {} THEN 0 ELSE Greatest(hits)

\* Array.prototype.indexOf(value) >= 0
Contains(list, value) == \E i \in 1..Len(list) : list[i] = value

\* ------------------------------------------------------------------------
\* node's path module (posix)
\* ------------------------------------------------------------------------
RECURSIVE stripTrailingSlashes(_)
stripTrailingSlashes(p) ==
  IF Len(p) > 1 /\ p[Len(p)] = "/"
  THEN stripTrailingSlashes(Sub(p, 1, Len(p) - 1))
  ELSE p

\* path.basename(p)
basename(p) ==
  CHOOSE r \in {IF q = <<"/">> THEN << >> ELSE Sub(q, lastIndexOfChar(q, "/") + 1, Len(q)) :
                  q \in {stripTrailingSlashes(p)}} : TRUE

\* path.extname(p)
extname(p) ==
  CHOOSE r \in {IF i <= 1 \/ b = <<".", ".">> THEN << >> ELSE Sub(b, i, Len(b)) :
                  <<b, i>> \in {<<x, lastIndexOfChar(x, ".")>> : x \in {basename(p)}}} : TRUE

\* path.basename(p, ext)
basenameExt(p, ext) ==
  CHOOSE r \in {IF Len(e) > 0 /\ Len(b) >= Len(e)
                   /\ Sub(b, Len(b) - Len(e) + 1, Len(b)) = e
                THEN Sub(b, 1, Len(b) - Len(e))
                ELSE b :
                  b \in {basename(p)}, e \in {ext}} : TRUE

\* split on "/" into segments
RECURSIVE splitSlash(_)
splitSlash(p) ==
  LET i == indexOfStr(p, <<"/">>)
  IN  IF i = 0 THEN << p >>
      ELSE << Sub(p, 1, i - 1) >> \o splitSlash(Sub(p, i + 1, Len(p)))

\* normalizeArray: drop "" and ".", let ".." remove the segment before it
RECURSIVE normalizeSegs(_, _)
normalizeSegs(segs, acc) ==
  IF segs = << >> THEN acc
  ELSE LET h == Head(segs)
       IN  IF h = << >> \/ h = <<".">> THEN normalizeSegs(Tail(segs), acc)
           ELSE IF h = <<".", ".">>
           THEN normalizeSegs(Tail(segs),
                              IF acc = << >> THEN acc
                              ELSE Sub(acc, 1, Len(acc) - 1))
           ELSE normalizeSegs(Tail(segs), Append(acc, h))

RECURSIVE joinSlash(_)
joinSlash(segs) ==
  IF segs = << >> THEN << >>
  ELSE <<"/">> \o Head(segs) \o joinSlash(Tail(segs))

\* process.cwd()
ProcessCwd == <<"/", "w">>

\* path.resolve(p): absolute, normalised, relative to process.cwd()
resolve(p) ==
  LET abs == IF Len(p) > 0 /\ p[1] = "/" THEN p ELSE ProcessCwd \o <<"/">> \o p
      out == joinSlash(normalizeSegs(splitSlash(abs), << >>))
  IN  IF out = << >> THEN <<"/">> ELSE out

\* ------------------------------------------------------------------------
\* Inputs of the model
\* ------------------------------------------------------------------------
\* vinyl file records entering the stages: path, base and cwd
FileA == [path |-> <<"/", "w", "/", "a", ".", "s">>,
          base |-> <<"/", "w">>,
          cwd  |-> <<"/", "w">>]

\* the basename "a.s" occurs earlier in the path, inside a directory name
FileB == [path |-> <<"/", "w", "/", "a", ".", "s", ".", "d", "/", "a", ".", "s">>,
          base |-> <<"/", "w">>,
          cwd  |-> <<"/", "w">>]

FileC == [path |-> <<"/", "v", "/", "b", ".", "s">>,
          base |-> <<"/", "v">>,
          cwd  |-> <<"/", "w">>]

Files == {FileA, FileB, FileC}

\* the records written to transpile()
SassFiles == {FileA, FileB}

\* explicit library paths
PathL == <<"/", "l">>

PathV == <<"/", "v">>

\* values handed to addUnique: a string is [str |-> s], an array is
\* [arr |-> <<values>>], anything else (number, undefined, ...) is [other |-> 0]
StrV(s) == [str |-> s]

ArrV(a) == [arr |-> a]

OtherV == [other |-> 0]

\* argument lists of libraries(...)
LibArgs ==
  { << >>,
    << StrV(PathL) >>,
    << StrV(PathV), StrV(PathL), StrV(PathV) >>,
    << ArrV(<< StrV(PathL), ArrV(<< StrV(PathV), StrV(PathL) >>) >>), OtherV >>,
    << ArrV(<< ArrV(<< StrV(<<"/", "w">>) >>) >>), StrV(PathV) >> }

\* ------------------------------------------------------------------------
\* State
\* ------------------------------------------------------------------------
VARIABLES
  libList,      \* the shared library list (var libList)
  seen,         \* history: every string handed to addUnique, in order
  libStages,    \* number of libraries() stages constructed
  libOps,       \* history: number of library operations so far
  libIn,        \* history: records handed to the libraries() stages' transform
  libOut,       \* records pushed by the libraries() stages
  tQueue,       \* records written to the transpile stage, not yet transformed
  tInEnded,     \* the transpile stage's input has ended
  tpc,          \* transpile: "idle", "probe", "real", "crashed", "finished"
  tFile,        \* transpile: the record being transformed (Null when idle)
  tWritten,     \* history: records written to the transpile stage, in order
  tDone,        \* history: per transformed item, the number of done() calls
  tOut,         \* records pushed by the transpile stage
  calls,        \* history: the sass.render calls issued
  answers,      \* history: the compiler's callbacks, one per call
  bannerWidth,  \* the argument of sassReporter(bannerWidth)
  rpos,         \* reporter: number of records of tOut consumed
  rpc,          \* reporter: "running", "crashed", "ended"
  output,       \* reporter: var output, the buffered messages
  msgs,         \* history: formatted message of every marker transformed
  rOut,         \* records pushed by the reporter
  stdout,       \* process.stdout: the blocks written, one entry per write
  sIn,          \* a raw source map and the cwd it is cleaned for
  sOut,         \* Some(what sanitizeMap gave for sIn), Null before
  iIn,          \* a markup record and the argument of injectAppCSS(cssBasePath)
  iOut          \* Some(what the injectAppCSS transform did for iIn), Null before

libVars == << libList, seen, libStages, libOps, libIn, libOut >>

tVars == << tQueue, tInEnded, tpc, tFile, tWritten, tDone, tOut, calls, answers >>

rVars == << bannerWidth, rpos, rpc, output, msgs, rOut, stdout >>

sVars == << sIn, sOut, iIn, iOut >>

vars == << libList, seen, libStages, libOps, libIn, libOut,
           tQueue, tInEnded, tpc, tFile, tWritten, tDone, tOut, calls, answers,
           bannerWidth, rpos, rpc, output, msgs, rOut, stdout,
           sIn, sOut, iIn, iOut >>

\* ------------------------------------------------------------------------
\* The library list: addUnique and libraries()
\* ------------------------------------------------------------------------
\* libList.unshift(value) in place of push
unshiftValue(list, value) == << value >> \o list

\* the list replaced by the new value alone
pushValueAlone(list, value) == << value >>

\* libList.push(value)
pushValue(list, value) == Append(list, value)

\* addUnique(value), as the new content of the list
RECURSIVE addUnique(_, _)
RECURSIVE addUniqueEach(_, _)
addUnique(list, value) ==
  IF "arr" \in DOMAIN value THEN addUniqueEach(list, value.arr)
  ELSE IF "str" \in DOMAIN value /\ ~Contains(list, value.str)
  THEN pushValue(list, value.str)
  ELSE list

\* value.forEach(addUnique)
addUniqueEach(list, values) ==
  IF values = << >> THEN list
  ELSE addUniqueEach(addUnique(list, Head(values)), Tail(values))

\* the strings a value offers to the list, in the order addUnique visits them
RECURSIVE offered(_)
RECURSIVE offeredEach(_)
offered(value) ==
  IF "arr" \in DOMAIN value THEN offeredEach(value.arr)
  ELSE IF "str" \in DOMAIN value THEN << value.str >>
  ELSE << >>

offeredEach(values) ==
  IF values = << >> THEN << >>
  ELSE offered(Head(values)) \o offeredEach(Tail(values))

\* libraries(args...): the construction adds the explicit paths
Libraries(args) ==
  /\ libOps < MaxLibOps
  /\ libList' = addUnique(libList, ArrV(args))
  /\ seen' = seen \o offered(ArrV(args))
  /\ libStages' = libStages + 1
  /\ libOps' = libOps + 1
  /\ UNCHANGED << libIn, libOut, tVars, rVars, sVars >>

\* the transform pushing a record only when its base is new to the list
librariesTransformNewOnly(list, file) ==
  [libList |-> addUnique(list, StrV(file.base)),
   push    |-> IF Contains(list, file.base) THEN << >> ELSE << file >>,
   done    |-> 1]

\* function(file, encoding, done) of libraries(): the list afterwards, the
\* records pushed and the number of done() calls
librariesTransform(list, file) ==
  [libList |-> addUnique(list, StrV(file.base)),
   push    |-> << file >>,
   done    |-> 1]

\* the transform of a libraries() stage, for one record
LibrariesTransform(file) ==
  /\ libStages > 0
  /\ libOps < MaxLibOps
  /\ \E r \in {librariesTransform(libList, file)} :
       /\ libList' = r.libList
       /\ libOut' = libOut \o r.push
  /\ seen' = Append(seen, file.base)
  /\ libIn' = Append(libIn, file)
  /\ libOps' = libOps + 1
  /\ UNCHANGED << libStages, tVars, rVars, sVars >>

\* ------------------------------------------------------------------------
\* transpile(): the compiler's answers
\* ------------------------------------------------------------------------
SourceString == <<"s", "o", "u", "r", "c", "e", " ", "s", "t", "r", "i", "n", "g">>

ErrorKw == <<"e", "r", "r", "o", "r", ":">>

\* "source string:1: error: m"
ErrSource == SourceString \o <<":", "1", ":", " ">> \o ErrorKw \o <<" ", "m">>

\* "source string:1:error:m": another text for the same diagnostic
ErrSourceTight == SourceString \o <<":", "1", ":">> \o ErrorKw \o <<"m">>

\* "l/../b:12: error: n": the diagnostic names an imported file
ErrImport ==
  <<"l", "/", ".", ".", "/", "b", ":", "1", "2", ":", " ">> \o ErrorKw \o <<" ", "n">>

\* "boom": a text that is no '<source>:<line>: error: <message>'
ErrUnparsed == <<"b", "o", "o", "m">>

ErrorTexts == {ErrSource, ErrSourceTight, ErrImport, ErrUnparsed}

CssTexts == { <<"c">> }

\* raw source maps as the compiler returns them: JSON text, of which the model
\* keeps the keys 'file' and 'sourcesContent' (Null when absent) and, for every
\* 'sources' string, the characters between its quotes as they stand in the
\* text, escapes included
MapLeaky == [file |-> Some(<<"/", "w", "/", "a", ".", "c">>),
             sourcesContent |-> Some(<<"x">>),
             sources |-> << <<"/", "w", "/", "a", ".", "s">>,
                            <<".", ".", "/", "l", "/", "b", ".", "s">> >>]

\* a source file named a"b.s: the text holds the escape \"
MapQuoted == [file |-> Null,
              sourcesContent |-> Null,
              sources |-> << <<"a", "\\", "\"", "b", ".", "s">> >>]

RawMaps == {MapLeaky, MapQuoted}

\* ------------------------------------------------------------------------
\* transpile(): successHandler's source-map clean-up
\* ------------------------------------------------------------------------
DotDotSlash == <<".", ".", "/">>

\* minimatch.makeRe(cwd).source with ^ and $ removed and every '\/' replaced
\* by '[\\\/]': the cwd itself, each separator matching '/' or '\'
cwdMatchesAt(text, i, cwd) ==
  /\ Len(cwd) > 0
  /\ i + Len(cwd) - 1 <= Len(text)
  /\ \A k \in 1..Len(cwd) :
       \/ text[i + k - 1] = cwd[k]
       \/ cwd[k] = "/" /\ text[i + k - 1] = "\\"

\* map.replace(new RegExp(source, 'g'), ''): one left-to-right pass, the scan
\* resuming after each removed match
RECURSIVE removeMatches(_, _, _)
removeMatches(text, i, cwd) ==
  IF i > Len(text) THEN << >>
  ELSE IF cwdMatchesAt(text, i, cwd) THEN removeMatches(text, i + Len(cwd), cwd)
  ELSE IF OccursAt(DotDotSlash, text, i) THEN removeMatches(text, i + Len(DotDotSlash), cwd)
  ELSE << text[i] >> \o removeMatches(text, i + 1, cwd)

\* gulp-slash on a string: backslashes become forward slashes
slash(text) == [k \in 1..Len(text) |-> IF text[k] = "\\" THEN "/" ELSE text[k]]

\* var parsable = slash(map.replace(...)), for one string of the map
parsable(text, cwd) == slash(removeMatches(text, 1, cwd))

\* the characters that may follow a backslash in a JSON string
JsonEscapes == {"\"", "\\", "/", "b", "f", "n", "r", "t"}

\* what an escape stands for
unescape(c) ==
  IF c = "n" THEN "\n" ELSE IF c = "r" THEN "\r" ELSE IF c = "t" THEN "\t" ELSE c

\* JSON.parse on the text of one string: Null for a SyntaxError (a quote that
\* is not escaped, a backslash with no escape after it), Some(string) otherwise
RECURSIVE jsonString(_, _, _)
jsonString(text, i, acc) ==
  IF i > Len(text) THEN Some(acc)
  ELSE IF text[i] = "\"" THEN Null
  ELSE IF text[i] = "\\"
  THEN IF i < Len(text) /\ text[i + 1] \in JsonEscapes
       THEN jsonString(text, i + 2, Append(acc, unescape(text[i + 1])))
       ELSE Null
  ELSE jsonString(text, i + 1, Append(acc, text[i]))

\* var sourceMap = JSON.parse(parsable), then the two deletes: Null when
\* JSON.parse throws, Some(the map pushed as '.css.map') otherwise
sanitizeMap(raw, cwd) ==
  CHOOSE r \in
    {IF \E k \in 1..Len(parsed) : parsed[k] = Null THEN Null
     ELSE Some([file |-> Null,
                sourcesContent |-> Null,
                sources |-> [k \in 1..Len(parsed) |-> parsed[k][1]]]) :
       parsed \in {[k \in 1..Len(raw.sources) |->
                      jsonString(parsable(raw.sources[k], cwd), 1, << >>)]}} : TRUE

\* ------------------------------------------------------------------------
\* transpile(): the transform
\* ------------------------------------------------------------------------
ExtCss == <<".", "c", "s", "s">>

ExtMap == <<".", "c", "s", "s", ".", "m", "a", "p">>

\* var sourcePath = file.path.replace(path.basename(file.path), '')
sourcePath(file) == replaceFirst(file.path, basename(file.path), << >>)

\* var sourceName = path.basename(file.path, path.extname(file.path))
sourceName(file) == basenameExt(file.path, extname(file.path))

\* var mapName = sourceName + '.css.map'
mapName(file) == sourceName(file) \o ExtMap

\* pushResult(ext, contents): the record pushed.  contents is [text |-> t] for
\* a string and [obj |-> fields] for an object; item is the number of the
\* input record (history, not a field of the vinyl file)
pushResult(file, item, ext, contents) ==
  [item       |-> item,
   ext        |-> ext,
   cwd        |-> file.cwd,
   base       |-> file.base,
   path       |-> sourcePath(file) \o sourceName(file) \o ext,
   contents   |-> IF "text" \in DOMAIN contents THEN Some(contents.text) ELSE Null,
   sassSource |-> IF "obj" \in DOMAIN contents THEN contents.obj.sassSource ELSE Null,
   sassError  |-> IF "obj" \in DOMAIN contents THEN contents.obj.sassError ELSE Null]

\* successHandler(css, map): the records pushed, in order, the number of
\* done() calls, and whether the handler threw.  JSON.parse comes before the
\* pushes and before done(): when it throws, nothing is pushed and done() is
\* not called
successHandler(file, item, css, map) ==
  CHOOSE r \in
    {IF sourceMap = Null THEN [push |-> << >>, done |-> 0, threw |-> TRUE]
     ELSE [push |-> << pushResult(file, item, ExtCss, [text |-> [css |-> css]]),
                       pushResult(file, item, ExtMap, [text |-> [map |-> sourceMap[1]]]) >>,
           done |-> 1, threw |-> FALSE] :
       sourceMap \in {sanitizeMap(map, file.cwd)}} : TRUE

\* errorHandler pushing the error text as the file's contents, without the
\* side-channel fields
errorHandlerAsContents(file, item, error) ==
  [push |-> << pushResult(file, item, ExtCss, [text |-> [css |-> error]]) >>,
   done |-> 1, threw |-> FALSE]

\* errorHandler(error)
errorHandler(file, item, error) ==
  [push |-> << pushResult(file, item, ExtCss,
                          [obj |-> [sassSource |-> Some(file),
                                    sassError  |-> Some(error)]]) >>,
   done |-> 1, threw |-> FALSE]

\* render handing over no include paths
renderNoPaths(file, map) ==
  [file |-> file.path, includePaths |-> << >>, sourceMap |-> map,
   seenAt |-> Len(seen)]

\* render(map, error, success): the sass.render call issued.  The options
\* hold the shared list itself; sass.render reads its arguments when it is
\* called, so the call works with the contents the list has at that moment.
\* seenAt is history: how many strings had been handed to addUnique by then
render(file, map) ==
  [file |-> file.path, includePaths |-> libList, sourceMap |-> map,
   seenAt |-> Len(seen)]

\* the callback of call number 'call' (a position of calls): the error text,
\* or Null for success; item is the number of the record being transformed
Answer(call, error) == [call |-> call, item |-> Len(tDone), error |-> error]

\* a record is written to the transpile stage
TranspileWrite(file) ==
  /\ ~tInEnded
  /\ Len(tWritten) < MaxFiles
  /\ tQueue' = Append(tQueue, file)
  /\ tWritten' = Append(tWritten, file)
  /\ UNCHANGED << tInEnded, tpc, tFile, tDone, tOut, calls, answers, libVars, rVars, sVars >>

\* the input of the transpile stage ends
TranspileEnd ==
  /\ ~tInEnded
  /\ tInEnded' = TRUE
  /\ UNCHANGED << tQueue, tpc, tFile, tWritten, tDone, tOut, calls, answers, libVars, rVars, sVars >>

\* the transform issuing the probe call and the source-map call side by side
TranspileTransformBothCalls ==
  /\ tpc = "idle"
  /\ tQueue # << >>
  /\ tFile' = Some(Head(tQueue))
  /\ tQueue' = Tail(tQueue)
  /\ tDone' = Append(tDone, 0)
  /\ calls' = calls \o << render(Head(tQueue), Null),
                          render(Head(tQueue), Some(mapName(Head(tQueue)))) >>
  /\ tpc' = "real"
  /\ UNCHANGED << tInEnded, tWritten, tOut, answers, libVars, rVars, sVars >>

\* through2 calls the transform with the next record: render(false, ...)
TranspileTransform ==
  /\ tpc = "idle"
  /\ tQueue # << >>
  /\ tFile' = Some(Head(tQueue))
  /\ tQueue' = Tail(tQueue)
  /\ tDone' = Append(tDone, 0)
  /\ calls' = Append(calls, render(Head(tQueue), Null))
  /\ tpc' = "probe"
  /\ UNCHANGED << tInEnded, tWritten, tOut, answers, libVars, rVars, sVars >>

\* what a handler's run leaves behind: its pushes, its done() calls, and the
\* stage free for the next record once done() was called; an exception leaves
\* the record for ever incomplete
Handled(r) ==
  /\ tOut' = tOut \o r.push
  /\ tDone' = [tDone EXCEPT ![Len(tDone)] = @ + r.done]
  /\ tpc' = IF r.threw THEN "crashed" ELSE "idle"
  /\ tFile' = IF r.done > 0 THEN Null ELSE tFile
  /\ UNCHANGED << tQueue, tInEnded, tWritten, calls, libVars, rVars, sVars >>

\* the success callback of the probe handing the probe's include paths on to
\* the source-map call
ProbeSuccessSamePaths ==
  /\ tpc = "probe"
  /\ calls' = Append(calls, [render(tFile[1], Some(mapName(tFile[1])))
                               EXCEPT !.includePaths = calls[Len(calls)].includePaths])
  /\ answers' = Append(answers, Answer(Len(calls), Null))
  /\ tpc' = "real"
  /\ UNCHANGED << tQueue, tInEnded, tFile, tWritten, tDone, tOut, libVars, rVars, sVars >>

\* the probe call reports success: render(mapName, errorHandler, successHandler)
ProbeSuccess ==
  /\ tpc = "probe"
  /\ calls' = Append(calls, render(tFile[1], Some(mapName(tFile[1]))))
  /\ answers' = Append(answers, Answer(Len(calls), Null))
  /\ tpc' = "real"
  /\ UNCHANGED << tQueue, tInEnded, tFile, tWritten, tDone, tOut, libVars, rVars, sVars >>

\* the probe call reports an error: errorHandler
ProbeError(error) ==
  /\ tpc = "probe"
  /\ answers' = Append(answers, Answer(Len(calls), Some(error)))
  /\ \E r \in {errorHandler(tFile[1], Len(tDone), error)} : Handled(r)

\* the source-map call reports success: successHandler
RealSuccess(css, map) ==
  /\ tpc = "real"
  /\ answers' = Append(answers, Answer(Len(calls), Null))
  /\ \E r \in {successHandler(tFile[1], Len(tDone), css, map)} : Handled(r)

\* the source-map call reports an error: errorHandler
RealError(error) ==
  /\ tpc = "real"
  /\ answers' = Append(answers, Answer(Len(calls), Some(error)))
  /\ \E r \in {errorHandler(tFile[1], Len(tDone), error)} : Handled(r)

\* the stage ends once its input has ended and every record is done
TranspileFinish ==
  /\ tpc = "idle"
  /\ tInEnded
  /\ tQueue = << >>
  /\ tpc' = "finished"
  /\ UNCHANGED << tQueue, tInEnded, tFile, tWritten, tDone, tOut, calls, answers, libVars, rVars, sVars >>

\* ------------------------------------------------------------------------
\* sassReporter(): the regular expression /(.*)\:(\d+)\:\s*error:\s*(.*)/
\* ------------------------------------------------------------------------
IsDigit(c) == c \in {"0", "1", "2", "3", "4", "5", "6", "7", "8", "9"}

IsSpace(c) == c \in {" ", "\t", "\n", "\r"}

\* '.' matches anything but a line terminator
IsLineEnd(c) == c \in {"\n", "\r"}

\* first position >= i that holds no digit (Len + 1 when there is none)
afterDigits(t, i) ==
  LET idx == {k \in i..Len(t) : ~IsDigit(t[k])}
  IN  IF idx = {} THEN Len(t) + 1 ELSE CHOOSE k \in idx : \A j \in idx : k <= j

\* first position >= i that holds no white space
afterSpace(t, i) ==
  LET idx == {k \in i..Len(t) : ~IsSpace(t[k])}
  IN  IF idx = {} THEN Len(t) + 1 ELSE CHOOSE k \in idx : \A j \in idx : k <= j

\* first position >= i that holds a line terminator
lineEnd(t, i) ==
  LET idx == {k \in i..Len(t) : IsLineEnd(t[k])}
  IN  IF idx = {} THEN Len(t) + 1 ELSE CHOOSE k \in idx : \A j \in idx : k <= j

\* \:(\d+)\:\s*error: matches at position p
tailMatchesAt(t, p) ==
  /\ p >= 1 /\ p <= Len(t)
  /\ t[p] = ":"
  /\ LET q == afterDigits(t, p + 1)
     IN  /\ q > p + 1
         /\ q <= Len(t)
         /\ t[q] = ":"
         /\ OccursAt(ErrorKw, t, afterSpace(t, q + 1))

\* (.*) from s can end right before p
headReaches(t, s, p) == s <= p /\ \A k \in s..(p - 1) : ~IsLineEnd(t[k])

\* RegExp.prototype.exec: Null, or the three groups of the leftmost match, the
\* first group as long as it can be
exec(t) ==
  LET tails == {p \in 1..Len(t) : tailMatchesAt(t, p)}
  IN  IF tails = {} THEN Null
      ELSE LET starts == {s \in 1..Len(t) : \E p \in tails : headReaches(t, s, p)}
               s  == CHOOSE x \in starts : \A y \in starts : x <= y
               ps == {p \in tails : headReaches(t, s, p)}
               p  == CHOOSE x \in ps : \A y \in ps : x >= y
               q  == afterDigits(t, p + 1)
               m  == afterSpace(t, afterSpace(t, q + 1) + Len(ErrorKw))
           IN  Some([g1 |-> Sub(t, s, p - 1),
                     g2 |-> Sub(t, p + 1, q - 1),
                     g3 |-> Sub(t, m, lineEnd(t, m) - 1)])

\* ------------------------------------------------------------------------
\* sassReporter(): the transform and the flush
\* ------------------------------------------------------------------------
ExtScss == <<".", "s", "c", "s", "s">>

\* the message formatted without the test for 'source string'
formatMessageTokenPath(file, analysis) ==
  resolve(analysis.g1 \o ExtScss) \o <<":">> \o analysis.g2 \o <<":", "0", ":", " ">>
    \o analysis.g3 \o <<"\n">>

\* message = absolute + ':' + analysis[2] + ':0: ' + analysis[3] + '\n'
formatMessage(file, analysis) ==
  LET isSource == analysis.g1 = SourceString
      absolute == IF isSource THEN file.sassSource[1].path
                  ELSE resolve(analysis.g1 \o ExtScss)
  IN  absolute \o <<":">> \o analysis.g2 \o <<":", "0", ":", " ">>
        \o analysis.g3 \o <<"\n">>

\* var isError = (file.isNull()) && (file.sassError) && (file.sassSource)
isError(file) ==
  /\ file.contents = Null
  /\ file.sassError # Null /\ file.sassError[1] # << >>
  /\ file.sassSource # Null

\* output.push(message) without the indexOf test
bufferAlways(out, message) ==
  IF message # << >> THEN Append(out, message) ELSE out

\* if ((message) && (output.indexOf(message) < 0)) output.push(message)
bufferUnique(out, message) ==
  IF message # << >> /\ ~Contains(out, message) THEN Append(out, message) ELSE out

\* the transform for one record: the records pushed, the buffer afterwards,
\* the message formatted (Null when none), what console.log wrote to standard
\* output, the number of done() calls, and whether the function threw.  The
\* else branch of 'if (analysis)' evaluates the undeclared identifier 'error':
\* a ReferenceError, raised before console.log is entered and before done()
reporterTransform(file, out) ==
  IF isError(file)
  THEN LET analysis == exec(file.sassError[1])
       IN  IF analysis # Null
           THEN LET message == formatMessage(file, analysis[1])
                IN  [push |-> << >>, output |-> bufferUnique(out, message),
                     message |-> Some(message), log |-> << >>,
                     done |-> 1, threw |-> FALSE]
           ELSE [push |-> << >>, output |-> out,
                 message |-> Null, log |-> << >>, done |-> 0, threw |-> TRUE]
  ELSE [push |-> << file >>, output |-> out,
        message |-> Null, log |-> << >>, done |-> 1, threw |-> FALSE]

BannerDown == "V"

BannerUp == "A"

\* an array of width + 1 glyphs in place of width + 1 holes joined by the glyph
RECURSIVE repeatPerSlot(_, _)
repeatPerSlot(glyph, width) ==
  IF width < 0 THEN << >> ELSE << glyph >> \o repeatPerSlot(glyph, width - 1)

\* new Array(width + 1).join(glyph)
RECURSIVE repeat(_, _)
repeat(glyph, width) ==
  IF width <= 0 THEN << >> ELSE << glyph >> \o repeat(glyph, width - 1)

\* output.join('\n')
RECURSIVE joinLines(_)
joinLines(out) ==
  IF out = << >> THEN << >>
  ELSE IF Len(out) = 1 THEN out[1]
  ELSE out[1] \o <<"\n">> \o joinLines(Tail(out))

\* the flush function without the 'if (output.length)' guard
flushUnguarded(out, banner) ==
  LET width == IF banner = Null THEN 0 ELSE banner[1]
      start == IF width > 0 THEN repeat(BannerDown, width) \o <<"\n">> ELSE << >>
      stop  == IF width > 0 THEN repeat(BannerUp, width) \o <<"\n">> ELSE << >>
  IN  << start \o <<"\n">> \o joinLines(out) \o <<"\n">> \o stop >>

\* the flush function: the writes to process.stdout
flush(out, banner) ==
  IF Len(out) > 0
  THEN LET width == IF banner = Null THEN 0 ELSE banner[1]
           start == IF width > 0 THEN repeat(BannerDown, width) \o <<"\n">> ELSE << >>
           stop  == IF width > 0 THEN repeat(BannerUp, width) \o <<"\n">> ELSE << >>
       IN  << start \o <<"\n">> \o joinLines(out) \o <<"\n">> \o stop >>
  ELSE << >>

\* the reporter, piped from transpile, transforms the next record
ReporterTransform ==
  /\ rpc = "running"
  /\ rpos < Len(tOut)
  /\ \E r \in {reporterTransform(tOut[rpos + 1], output)} :
         /\ rpos' = rpos + 1
         /\ rOut' = rOut \o r.push
         /\ output' = r.output
         /\ msgs' = msgs \o r.message
         /\ stdout' = stdout \o r.log
         /\ rpc' = IF r.threw \/ r.done = 0 THEN "crashed" ELSE "running"
  /\ UNCHANGED << bannerWidth, libVars, tVars, sVars >>

\* the reporter's input ends: the flush function runs
ReporterFlush ==
  /\ rpc = "running"
  /\ tpc = "finished"
  /\ rpos = Len(tOut)
  /\ stdout' = stdout \o flush(output, bannerWidth)
  /\ rpc' = "ended"
  /\ UNCHANGED << bannerWidth, rpos, output, msgs, rOut, libVars, tVars, sVars >>

\* ------------------------------------------------------------------------
\* injectAppCSS()
\* ------------------------------------------------------------------------
\* names of directories and files of the site
SegS == <<"s">>

SegP == <<"p">>

SegQ == <<"q">>

\* a directory whose name holds the name of the markup file
SegD == <<"i", ".", "h", ".", "d">>

SegC == <<"c">>

IndexHtml == <<"i", ".", "h">>

ACss == <<"a">> \o ExtCss

BCss == <<"b">> \o ExtCss

\* the markup record /s/<dirs>/i.h, read with base /s
MarkupAt(dirs) ==
  [path |-> joinSlash(<<SegS>> \o dirs \o <<IndexHtml>>),
   base |-> joinSlash(<<SegS>>),
   cwd  |-> ProcessCwd]

\* the files on disk
FsFiles ==
  { joinSlash(<<SegS, ACss>>),
    joinSlash(<<SegS, SegP, ACss>>),
    joinSlash(<<SegS, SegP, BCss>>),
    joinSlash(<<SegS, SegP, IndexHtml>>),
    joinSlash(<<SegS, SegP, SegQ, ACss>>),
    joinSlash(<<SegS, SegD, ACss>>),
    joinSlash(<<SegS, SegQ, SegD, BCss>>),
    joinSlash(<<SegC, SegP, ACss>>),
    joinSlash(<<SegC, SegP, SegQ, BCss>>),
    joinSlash(<<SegC, SegD, BCss>>),
    ProcessCwd \o joinSlash(<<SegC, SegP, BCss>>) }

\* var htmlName = path.basename(file.path)
htmlName(file) == basename(file.path)

\* var htmlPath = path.resolve(file.path.replace(htmlName, ''))
htmlPath(file) == resolve(replaceFirst(file.path, htmlName(file), << >>))

\* var htmlBase = path.resolve(file.base)
htmlBase(file) == resolve(file.base)

\* var cssBase = (cssBasePath) ? path.resolve(cssBasePath) : htmlBase
cssBase(file, cssBasePath) ==
  IF cssBasePath # Null /\ cssBasePath[1] # << >>
  THEN resolve(cssBasePath[1])
  ELSE htmlBase(file)

StarCss == <<"/", "*">> \o ExtCss

\* var glob = htmlPath.replace(htmlBase, cssBase) + '/*.css'
glob(file, cssBasePath) ==
  replaceFirst(htmlPath(file), htmlBase(file), cssBase(file, cssBasePath)) \o StarCss

\* does the file at path p match the pattern '<directory>/*.css': it lies
\* directly in the directory, its name ends with '.css' and starts with no dot
globMatches(pattern, p) ==
  \E dir \in {Sub(pattern, 1, Len(pattern) - Len(StarCss))} :
    \E name \in {Sub(p, Len(dir) + 2, Len(p))} :
      /\ Len(p) > Len(dir) + 1
      /\ Sub(p, 1, Len(dir) + 1) = dir \o <<"/">>
      /\ lastIndexOfChar(name, "/") = 0
      /\ Len(name) >= Len(ExtCss)
      /\ Sub(name, Len(name) - Len(ExtCss) + 1, Len(name)) = ExtCss
      /\ name[1] # "."

\* gulp.src(glob, { read: false }): the files found
globSrc(pattern) == {p \in FsFiles : globMatches(pattern, p)}

\* the transform of injectAppCSS for one markup record: the pattern searched,
\* the css files handed to the injection, the record pushed and the number of
\* done() calls
injectTransform(file, cssBasePath) ==
  CHOOSE r \in
    {[glob |-> g, sources |-> globSrc(g), push |-> << file >>, done |-> 1] :
       g \in {glob(file, cssBasePath)}} : TRUE

\* injectAppCSS(cssBasePath) transforms the markup record
InjectAppCSS ==
  /\ iOut = Null
  /\ iOut' = Some(injectTransform(iIn.file, iIn.cssBasePath))
  /\ UNCHANGED << iIn, sIn, sOut, libVars, tVars, rVars >>

\* ------------------------------------------------------------------------
\* Specifications
\* ------------------------------------------------------------------------
\* sassReporter(), sassReporter(0), sassReporter(3)
BannerArgs == {Null, Some(0), Some(3)}

InitLib ==
  /\ libList = << >>
  /\ seen = << >>
  /\ libStages = 0
  /\ libOps = 0
  /\ libIn = << >>
  /\ libOut = << >>

InitTranspile ==
  /\ tQueue = << >>
  /\ tInEnded = FALSE
  /\ tpc = "idle"
  /\ tFile = Null
  /\ tWritten = << >>
  /\ tDone = << >>
  /\ tOut = << >>
  /\ calls = << >>
  /\ answers = << >>

\* sassReporter(banner)
InitReporter(banner) ==
  /\ bannerWidth = banner
  /\ rpos = 0
  /\ rpc = "running"
  /\ output = << >>
  /\ msgs = << >>
  /\ rOut = << >>
  /\ stdout = << >>

InitNoMap ==
  /\ sIn = [map |-> MapLeaky, cwd |-> FileA.cwd]
  /\ sOut = Null

InitNoMarkup ==
  /\ iIn = [file |-> MarkupAt(<<SegP>>), cssBasePath |-> Null]
  /\ iOut = Null

Init ==
  /\ InitLib /\ InitTranspile /\ InitNoMap /\ InitNoMarkup
  /\ \E banner \in BannerArgs : InitReporter(banner)

\* the state before any reporter argument matters
InitPlain ==
  InitLib /\ InitTranspile /\ InitNoMap /\ InitNoMarkup /\ InitReporter(Null)

NextTranspile ==
  \/ \E file \in SassFiles : TranspileWrite(file)
  \/ TranspileEnd
  \/ TranspileTransform
  \/ ProbeSuccess
  \/ \E error \in ErrorTexts : ProbeError(error)
  \/ \E css \in CssTexts, map \in RawMaps : RealSuccess(css, map)
  \/ \E error \in ErrorTexts : RealError(error)
  \/ TranspileFinish

Next ==
  \/ NextTranspile
  \/ ReporterTransform
  \/ ReporterFlush

\* the pipeline transpile() -> sassReporter()
Spec == Init /\ [][Next]_vars

NextLib ==
  \/ \E args \in LibArgs : Libraries(args)
  \/ \E file \in Files : LibrariesTransform(file)

\* libraries() constructions and libraries() stages at work
LibSpec == InitPlain /\ [][NextLib]_vars

\* the clean-up of successHandler applied to one raw source map
SanitizeMap ==
  /\ sOut = Null
  /\ sOut' = Some(sanitizeMap(sIn.map, sIn.cwd))
  /\ UNCHANGED << sIn, iIn, iOut, libVars, tVars, rVars >>

\* the characters of the 'sources' entries tried
EntryChars == {".", "/", "w"}

Entries == UNION {[1..n -> EntryChars] : n \in 0..MaxEntryLen}

InitMap ==
  /\ InitLib /\ InitTranspile /\ InitReporter(Null) /\ InitNoMarkup
  /\ \E entry \in Entries, keys \in {Null, Some(<<"x">>)} :
       sIn = [map |-> [file |-> keys, sourcesContent |-> keys,
                       sources |-> << entry >>],
              cwd |-> FileA.cwd]
  /\ sOut = Null

\* successHandler's source-map clean-up over every short 'sources' entry
MapSpec == InitMap /\ [][SanitizeMap]_vars

\* the directories below the markup base, by their segments
DirSegs == {SegP, SegQ, SegC, SegD}

MarkupDirs == UNION {[1..n -> DirSegs] : n \in 0..MaxDepth}

\* injectAppCSS(), injectAppCSS('/c'), injectAppCSS('c'), injectAppCSS('/s')
CssBaseArgs ==
  {Null, Some(joinSlash(<<SegC>>)), Some(SegC), Some(joinSlash(<<SegS>>))}

InitInject ==
  /\ InitLib /\ InitTranspile /\ InitReporter(Null) /\ InitNoMap
  /\ \E dirs \in MarkupDirs, arg \in CssBaseArgs :
       iIn = [file |-> MarkupAt(dirs), cssBasePath |-> arg]
  /\ iOut = Null

\* injectAppCSS applied to one markup record
InjectSpec == InitInject /\ [][InjectAppCSS]_vars

\* explicit library paths given while the stages are at work
SharedLibArgs == { << StrV(PathL) >>, << StrV(PathV), StrV(PathL) >> }

\* every stage of one instance at work on the shared library list:
\* libraries() fed with its own records, transpile() -> sassReporter(), and
\* injectAppCSS(), their steps interleaved, for a few library operations and
\* a few records
NextShared ==
  \/ \E args \in SharedLibArgs : libOps < MaxSharedLibOps /\ Libraries(args)
  \/ \E file \in {FileC} : libOps < MaxSharedLibOps /\ LibrariesTransform(file)
  \/ \E file \in {FileA} : Len(tWritten) < MaxSharedFiles /\ TranspileWrite(file)
  \/ TranspileEnd
  \/ TranspileTransform
  \/ ProbeSuccess
  \/ \E error \in {ErrSource} : ProbeError(error)
  \/ \E css \in CssTexts, map \in {MapLeaky} : RealSuccess(css, map)
  \/ \E error \in {ErrSource} : RealError(error)
  \/ TranspileFinish
  \/ ReporterTransform
  \/ ReporterFlush
  \/ InjectAppCSS

SharedSpec == InitPlain /\ [][NextShared]_vars

\* the transpile stage alone, its input ending, through2 calling the transform
\* for every queued record and the compiler calling back once per call
TranspileRun ==
  \/ TranspileTransform
  \/ ProbeSuccess
  \/ \E error \in ErrorTexts : ProbeError(error)
  \/ \E css \in CssTexts, map \in RawMaps : RealSuccess(css, map)
  \/ \E error \in ErrorTexts : RealError(error)
  \/ TranspileFinish

FairSpec ==
  /\ InitPlain
  /\ [][NextTranspile]_vars
  /\ WF_vars(TranspileEnd)
  /\ WF_vars(TranspileRun)

\* ------------------------------------------------------------------------
\* Vocabulary of the properties
\* ------------------------------------------------------------------------
Range(seq) == {seq[k] : k \in 1..Len(seq)}

NoDuplicates(seq) == \A i, j \in 1..Len(seq) : seq[i] = seq[j] => i = j

\* seq without the later occurrences of its elements
RECURSIVE FirstSeen(_)
FirstSeen(seq) ==
  IF seq = << >> THEN << >>
  ELSE LET front == FirstSeen(Sub(seq, 1, Len(seq) - 1))
           last  == seq[Len(seq)]
       IN  IF \E k \in 1..(Len(seq) - 1) : seq[k] = last THEN front
           ELSE Append(front, last)

EndsWith(s, suffix) ==
  Len(s) >= Len(suffix) /\ Sub(s, Len(s) - Len(suffix) + 1, Len(s)) = suffix

ContainsStr(s, sub) == \E i \in 1..Len(s) : OccursAt(sub, s, i)

CountOcc(s, sub) == Cardinality({i \in 1..Len(s) : OccursAt(sub, s, i)})

\* positions of tOut holding the records pushed for input item i
ItemRecords(i) == {k \in 1..Len(tOut) : tOut[k].item = i}

\* the compiler reported an error for item i, on either call
ItemFailed(i) == \E k \in 1..Len(answers) : answers[k].item = i /\ answers[k].error # Null

ItemError(i) ==
  LET k == CHOOSE x \in 1..Len(answers) : answers[x].item = i /\ answers[x].error # Null
  IN  answers[k].error[1]

\* the source-map call of item i reported success
ItemSucceeded(i) ==
  \E k \in 1..Len(answers) :
    /\ answers[k].item = i
    /\ answers[k].error = Null
    /\ calls[answers[k].call].sourceMap # Null

\* item i failed on its probe call / on its source-map call
FailedOnProbe(i) ==
  \E k \in 1..Len(answers) :
    answers[k].item = i /\ answers[k].error # Null /\ calls[answers[k].call].sourceMap = Null

FailedOnReal(i) ==
  \E k \in 1..Len(answers) :
    answers[k].item = i /\ answers[k].error # Null /\ calls[answers[k].call].sourceMap # Null

\* ------------------------------------------------------------------------
\* C1 (LibSpec): after any constructions and any streamed records, the
\* library list holds every distinct string handed to it exactly once, in the
\* order in which each string was first seen.
\* ------------------------------------------------------------------------
C1_LibListFirstSeenOrder ==
  /\ NoDuplicates(libList)
  /\ libList = FirstSeen(seen)

\* nested arrays, repeated explicit paths and a repeated file base have all
\* been handed over, three distinct strings among them
C1_Witness ==
  /\ Len(libList) = 3
  /\ Len(seen) >= 5
  /\ libOut # << >>
  /\ \E k \in 1..Len(seen) : seen[k] = FileA.base /\ k > 1

\* ------------------------------------------------------------------------
\* C2 (Spec): a failing compile, on the probe call or on the source-map
\* call, yields exactly one record for that input: a '.css' record with null
\* contents, sassSource the input record and sassError the error text, and no
\* '.css.map' record.
\* ------------------------------------------------------------------------
C2_FailedCompileEmitsOneMarker ==
  \A i \in 1..Len(tDone) :
    ItemFailed(i) =>
      /\ Cardinality(ItemRecords(i)) = 1
      /\ \A k \in ItemRecords(i) :
           /\ EndsWith(tOut[k].path, ExtCss)
           /\ ~EndsWith(tOut[k].path, ExtMap)
           /\ tOut[k].contents = Null
           /\ tOut[k].sassSource = Some(tWritten[i])
           /\ tOut[k].sassError = Some(ItemError(i))

\* one input failed on its probe call and another on its source-map call
C2_Witness ==
  /\ \E i \in 1..Len(tDone) : FailedOnProbe(i) /\ tDone[i] = 1
  /\ \E i \in 1..Len(tDone) : FailedOnReal(i) /\ tDone[i] = 1

\* ------------------------------------------------------------------------
\* C3 (Spec): a successful compile yields exactly two records, the '.css'
\* record and right after it the '.css.map' record; records appear in input
\* order, so no pair is interleaved with another input's records.
\* ------------------------------------------------------------------------
C3_SuccessEmitsCssThenMap ==
  /\ \A i \in 1..Len(tDone) :
       ItemSucceeded(i) =>
         \E k \in 1..(Len(tOut) - 1) :
           /\ ItemRecords(i) = {k, k + 1}
           /\ EndsWith(tOut[k].path, ExtCss)
           /\ ~EndsWith(tOut[k].path, ExtMap)
           /\ tOut[k].contents # Null
           /\ "css" \in DOMAIN tOut[k].contents[1]
           /\ EndsWith(tOut[k + 1].path, ExtMap)
           /\ tOut[k + 1].contents # Null
           /\ "map" \in DOMAIN tOut[k + 1].contents[1]
  /\ \A k \in 1..(Len(tOut) - 1) : tOut[k].item <= tOut[k + 1].item

\* ------------------------------------------------------------------------
\* C4 (FairSpec): whatever the compiler answers, done() is called exactly
\* once for every record, no handler throws, every written record is
\* eventually transformed and the stage reaches its end.
\* ------------------------------------------------------------------------
C4_EveryItemCompletesOnce ==
  /\ [](/\ tpc # "crashed"
        /\ \A i \in 1..Len(tDone) :
             /\ tDone[i] <= 1
             /\ (i < Len(tDone) \/ tpc \in {"idle", "finished"}) => tDone[i] = 1)
  /\ <>(/\ tpc = "finished"
        /\ Len(tDone) = Len(tWritten)
        /\ \A i \in 1..Len(tDone) : tDone[i] = 1)

\* ------------------------------------------------------------------------
\* C5 (Spec): once the pipeline transpile -> sassReporter has come to rest,
\* the records that left the reporter are exactly the records of the
\* successful compiles, in their order, and when a compile failed the reporter
\* has ended with its report written.
\* ------------------------------------------------------------------------
RecordOfSuccess(r) == ItemSucceeded(r.item)

C5_ReporterPassesSuccessesOnly ==
  /\ \A k \in 1..Len(rOut) : ItemSucceeded(rOut[k].item)
  /\ (tpc = "finished" /\ rpc # "running") =>
       /\ rOut = SelectSeq(tOut, RecordOfSuccess)
       /\ (\E i \in 1..Len(tDone) : ItemFailed(i)) =>
            (rpc = "ended" /\ Len(stdout) = 1)

C7_OneWriteAtStreamEnd ==
  /\ Len(stdout) <= 1
  /\ rpc # "ended" => stdout = << >>
  /\ rpc = "ended" => (Len(stdout) = 1 <=> output # << >>)

\* the stream ended after a marker and a compiled pair, with the one write
C7_Witness ==
  /\ rpc = "ended"
  /\ Len(stdout) = 1
  /\ rOut # << >>
  /\ Len(output) = 1

\* ------------------------------------------------------------------------
\* C8 (Spec): a marker whose error text is no
\* '<source>:<line>: error: <message>' is logged, and its item is completed
\* so that the reporter goes on.
\* ------------------------------------------------------------------------
C8_UnparsedErrorLoggedAndCompleted ==
  \A k \in 1..rpos :
    (isError(tOut[k]) /\ exec(tOut[k].sassError[1]) = Null) =>
      /\ rpc # "crashed"
      /\ \E w \in Range(stdout) : ContainsStr(w, tOut[k].sassError[1])

\* ------------------------------------------------------------------------
\* C9 (MapSpec): the cleaned source map has no 'file' key, no
\* 'sourcesContent' key, and no 'sources' entry containing the working
\* directory or '../'.
\* ------------------------------------------------------------------------
C9_MapIsSanitized ==
  (sOut # Null /\ sOut[1] # Null) =>
    /\ sOut[1][1].file = Null
    /\ sOut[1][1].sourcesContent = Null
    /\ \A k \in 1..Len(sOut[1][1].sources) :
         /\ ~ContainsStr(sOut[1][1].sources[k], sIn.cwd)
         /\ ~ContainsStr(sOut[1][1].sources[k], DotDotSlash)

\* ------------------------------------------------------------------------
\* C10 (Spec): every record pushed by transpile lies in the input's own
\* directory, is named by the input's stem followed by '.css' or '.css.map',
\* and carries the input's cwd and base.
\* ------------------------------------------------------------------------
\* the directory part of a path, up to and including its last '/'
DirOf(p) == Sub(p, 1, lastIndexOfChar(p, "/"))

\* the last segment of a path without its extension
StemOf(p) ==
  LET b == Sub(p, lastIndexOfChar(p, "/") + 1, Len(p))
      d == lastIndexOfChar(b, ".")
  IN  IF d <= 1 THEN b ELSE Sub(b, 1, d - 1)

C10_OutputBesideInput ==
  \A k \in 1..Len(tOut) :
    LET f == tWritten[tOut[k].item]
    IN  /\ tOut[k].cwd = f.cwd
        /\ tOut[k].base = f.base
        /\ tOut[k].path \in {DirOf(f.path) \o StemOf(f.path) \o ExtCss,
                             DirOf(f.path) \o StemOf(f.path) \o ExtMap}

\* ------------------------------------------------------------------------
\* Vocabulary of the report block
\* ------------------------------------------------------------------------
\* the lines of a text: the pieces between its line feeds, the piece after
\* the last line feed included (empty when the text ends with a line feed)
RECURSIVE Lines(_)
Lines(text) ==
  LET i == indexOfStr(text, <<"\n">>)
  IN  IF i = 0 THEN << text >>
      ELSE << Sub(text, 1, i - 1) >> \o Lines(Sub(text, i + 1, Len(text)))

\* a buffered message without its final line feed
MessageLine(m) == Sub(m, 1, Len(m) - 1)

\* the lines of the messages, one line per message
RECURSIVE MessageLines(_)
MessageLines(out) ==
  IF out = << >> THEN << >>
  ELSE << MessageLine(Head(out)) >> \o MessageLines(Tail(out))

\* the lines of the messages, a blank line after each of them
RECURSIVE MessageLinesPadded(_)
MessageLinesPadded(out) ==
  IF out = << >> THEN << >>
  ELSE << MessageLine(Head(out)), << >> >> \o MessageLinesPadded(Tail(out))

\* the banner line asked for: none for an omitted or zero width
BannerLine(glyph) ==
  IF bannerWidth # Null /\ bannerWidth[1] > 0
  THEN << [k \in 1..bannerWidth[1] |-> glyph] >>
  ELSE << >>

\* ------------------------------------------------------------------------
\* C11 (Spec), as amended: the block written at the stream's end is, line by
\* line: the top banner of exactly bannerWidth glyphs when bannerWidth > 0, a
\* blank line, every buffered message in buffer order on a line of its own
\* with a blank line after it, and the bottom banner of exactly bannerWidth
\* glyphs when bannerWidth > 0; nothing follows the last line feed.
\* ------------------------------------------------------------------------
C11_BlockLinesPadded ==
  (rpc = "ended" /\ stdout # << >>) =>
    Lines(stdout[1]) =
      BannerLine(BannerDown) \o << << >> >> \o MessageLinesPadded(output)
        \o BannerLine(BannerUp) \o << << >> >>

\* a report of two messages between banners of width 3
C11_Witness ==
  /\ rpc = "ended"
  /\ bannerWidth = Some(3)
  /\ Len(output) = 2
  /\ Len(stdout) = 1

\* C11 as stated: the messages follow one another line after line, with no
\* line between them and none before the bottom banner
C11_BlockLinesAsStated ==
  (rpc = "ended" /\ stdout # << >>) =>
    Lines(stdout[1]) =
      BannerLine(BannerDown) \o << << >> >> \o MessageLines(output)
        \o BannerLine(BannerUp) \o << << >> >>

\* ------------------------------------------------------------------------
\* C12 (LibSpec): the records pushed by the libraries() stage are the records
\* handed to it, each once, unmodified and in the same order, whether or not
\* a record's base was already in the library list.
\* ------------------------------------------------------------------------
C12_LibrariesForwardsEveryRecord ==
  libOut = libIn

\* the second record went through when the list already held its base, added
\* for the first record
C12_Witness ==
  /\ Len(libIn) = 2
  /\ libIn[1].base = libIn[2].base
  /\ libIn[1] # libIn[2]
  /\ Len(libOut) = 2

\* ------------------------------------------------------------------------
\* Vocabulary of the error texts
\* ------------------------------------------------------------------------
AllDigits(t, i, j) == \A k \in i..j : IsDigit(t[k])

AllSpace(t, i, j) == \A k \in i..j : IsSpace(t[k])

OneLine(t) == \A k \in 1..Len(t) : ~IsLineEnd(t[k])

\* the ways to read a text as '<source>:<line>: error: <message>': a source
\* token, ':', the digits of the line, ':', optional white space, 'error:',
\* optional white space, and the message up to the end of the text
Readings(text) ==
  LET colons == {p \in 1..Len(text) : text[p] = ":"}
      kws    == {e \in 1..Len(text) : OccursAt(ErrorKw, text, e)}
  IN  {[source  |-> Sub(text, 1, p - 1),
        line    |-> Sub(text, p + 1, q - 1),
        message |-> Sub(text, m, Len(text))] :
         <<p, q, m>> \in
           {<<p, q, m>> \in colons \X colons \X {e + Len(ErrorKw) + n :
                                                  e \in kws, n \in 0..Len(text)} :
              /\ q > p + 1
              /\ AllDigits(text, p + 1, q - 1)
              /\ m <= Len(text) + 1
              /\ \E e \in kws :
                   /\ e > q
                   /\ AllSpace(text, q + 1, e - 1)
                   /\ m >= e + Len(ErrorKw)
                   /\ AllSpace(text, e + Len(ErrorKw), m - 1)
              /\ (m <= Len(text) => ~IsSpace(text[m]))}}

\* '<path>:<line>:0: <message>' for a marker read as d
DisplayedPath(marker, d) ==
  IF d.source = SourceString THEN marker.sassSource[1].path
  ELSE resolve(d.source \o ExtScss)

ReportLine(marker, d) ==
  DisplayedPath(marker, d) \o <<":">> \o d.line \o <<":", "0", ":", " ">> \o d.message

RelativeDir(file) ==
  LET segs == normalizeSegs(splitSlash(file.path), << >>)
      base == normalizeSegs(splitSlash(file.base), << >>)
  IN  Sub(segs, Len(base) + 1, Len(segs) - 1)

\* the directory to search, by its segments
SearchDir(file, cssBasePath) ==
  LET root == IF cssBasePath = Null THEN file.base ELSE resolve(cssBasePath[1])
  IN  normalizeSegs(splitSlash(root), << >>) \o RelativeDir(file)

\* the css files lying directly in the directory of segments dir
CssFilesIn(dir) ==
  {p \in FsFiles :
     LET segs == normalizeSegs(splitSlash(p), << >>)
     IN  /\ Len(segs) = Len(dir) + 1
         /\ Sub(segs, 1, Len(dir)) = dir
         /\ EndsWith(segs[Len(segs)], ExtCss)}

C14_InjectsCssOfMatchingDir ==
  iOut # Null =>
    iOut[1].sources = CssFilesIn(SearchDir(iIn.file, iIn.cssBasePath))

\* /s/p/i.h with the default css base: /s/p/a.css and /s/p/b.css, no other
C14_Witness ==
  /\ iOut # Null
  /\ iIn = [file |-> MarkupAt(<<SegP>>), cssBasePath |-> Null]
  /\ iOut[1].sources = {joinSlash(<<SegS, SegP, ACss>>), joinSlash(<<SegS, SegP, BCss>>)}

\* ------------------------------------------------------------------------
\* Vocabulary of the compiler calls
\* ------------------------------------------------------------------------
IsProbe(c) == calls[c].sourceMap = Null

Answered(c) == \E k \in 1..Len(answers) : answers[k].call = c

AnsweredWithSuccess(c) ==
  \E k \in 1..Len(answers) : answers[k].call = c /\ answers[k].error = Null

AnsweredWithError(c) ==
  \E k \in 1..Len(answers) : answers[k].call = c /\ answers[k].error # Null

\* the calls in flight: issued and not yet called back
InFlight == {c \in 1..Len(calls) : ~Answered(c)}

\* the input item a call was issued for: every item starts with a probe call
CallItem(c) == Cardinality({k \in 1..c : IsProbe(k)})

\* ------------------------------------------------------------------------
\* C15 (Spec): at most one compiler call is in flight; a source-map call
\* exists only right after the probe call of the same file, and only once that
\* probe call has called back with success; a probe call that called back with
\* an error is followed by no source-map call; and an item whose probe call
\* succeeded is complete only once its source-map call has called back.
\* ------------------------------------------------------------------------
C15_ProbeThenRealInSequence ==
  /\ Cardinality(InFlight) <= 1
  /\ \A c \in 1..Len(calls) :
       ~IsProbe(c) =>
         /\ c > 1
         /\ IsProbe(c - 1)
         /\ calls[c - 1].file = calls[c].file
         /\ AnsweredWithSuccess(c - 1)
  /\ \A c \in 1..Len(calls) :
       (IsProbe(c) /\ AnsweredWithError(c)) => (c = Len(calls) \/ IsProbe(c + 1))
  /\ \A c \in 1..Len(calls) :
       (IsProbe(c) /\ AnsweredWithSuccess(c) /\ tDone[CallItem(c)] > 0) =>
         (c < Len(calls) /\ ~IsProbe(c + 1) /\ Answered(c + 1))

\* one item failed on its probe call and got no second call; the next item
\* went through both calls and is complete
C15_Witness ==
  /\ Len(calls) = 3
  /\ IsProbe(1) /\ AnsweredWithError(1)
  /\ IsProbe(2) /\ AnsweredWithSuccess(2)
  /\ ~IsProbe(3) /\ Answered(3)
  /\ tDone = <<1, 1>>

\* ------------------------------------------------------------------------
\* Vocabulary of the shared list
\* ------------------------------------------------------------------------
IsPrefix(s, t) == Len(s) <= Len(t) /\ Sub(t, 1, Len(s)) = s

\* the library list as it stood when n strings had been handed to addUnique
ListAt(n) == FirstSeen(Sub(seen, 1, n))

C17_RealPathsExtendProbePaths ==
  \A c \in 1..Len(calls) :
    ~IsProbe(c) =>
      /\ calls[c].includePaths = ListAt(calls[c].seenAt)
      /\ IsPrefix(calls[c - 1].includePaths, calls[c].includePaths)
      /\ calls[c].seenAt = calls[c - 1].seenAt =>
           calls[c].includePaths = calls[c - 1].includePaths

\* a path was added while the probe call was in flight
C17_Witness ==
  /\ Len(calls) = 2
  /\ ~IsProbe(2)
  /\ calls[2].file = calls[1].file
  /\ Len(calls[1].includePaths) < Len(calls[2].includePaths)

\* C17 as stated: the source-map call has the include paths of the probe call
C17_RealPathsSameAsProbePaths ==
  \A c \in 1..Len(calls) :
    ~IsProbe(c) => calls[c].includePaths = calls[c - 1].includePaths

\* ------------------------------------------------------------------------
\* C18 (SharedSpec): every step leaves the library list a prefix of its new
\* value, the new value without duplicates; and a step of the transpile,
\* sassReporter or injectAppCSS stage leaves the list as it is.
\* ------------------------------------------------------------------------
C18_ListGrowsAtEndOnly ==
  [][/\ IsPrefix(libList, libList')
     /\ NoDuplicates(libList')
     /\ (tVars' # tVars \/ rVars' # rVars \/ sVars' # sVars) => libList' = libList]_vars

\* the list grew twice and declined a string it held, with the other stages
\* at work
C18_Witness ==
  /\ Len(libList) = 2
  /\ Len(seen) > Len(libList)
  /\ calls # << >>
  /\ rpos > 0
  /\ iOut # Null

====
